---- MODULE Spec2Model ----
(***************************************************************************)
(* Model of the RGB-to-multispectral repository:                           *)
(*   src/src/dataset.py  PotatoDataset (listing, split, parallel preload,  *)
(*                       indexed access)                                   *)
(*   src/src/model.py    UNet (shapes of the forward pass)                 *)
(***************************************************************************)
EXTENDS Integers, Sequences, FiniteSets, TLC

\* the field names of the records of this module; every record below lists
\* its fields in this order
FieldNames ==
  DOMAIN [align |-> 0, base |-> 0, called |-> 0, cat |-> 0, channel |-> 0,
          cur |-> 0, data |-> 0, data_set |-> 0, dims |-> 0, down |-> 0,
          downs |-> 0, expects |-> 0, ext |-> 0, failure |-> 0,
          folder_set |-> 0, gathered |-> 0, idx |-> 0, image |-> 0,
          in_channels |-> 0, input |-> 0, kind |-> 0, mode |-> 0, name |-> 0,
          ok |-> 0, out_channels |-> 0, output |-> 0, pooled |-> 0,
          raised |-> 0, random_seed |-> 0, rgb |-> 0, rgb_files |-> 0,
          size |-> 0, skip |-> 0, spectral |-> 0, spectral_files |-> 0,
          split_ratio |-> 0, stage |-> 0, status |-> 0, test |-> 0,
          train |-> 0, train_files |-> 0, transform |-> 0, up |-> 0,
          ups |-> 0, val_files |-> 0, value |-> 0]

\* ------------------------------------------------------------------ bounds

\* base names of the files a folder may hold: img1 .. img<MaxBase>
MaxBase == 3
\* at most this many files, over the four channel folders, are missing from
\* or extra to what the RGB folder holds
MaxDeviations == 2
\* at most this many channel images have another size than the rest
MaxOdd == 1
\* __getitem__ is called with indices -MaxIndex .. MaxIndex
MaxIndex == 4
\* the network is given inputs of heights and widths 1 .. MaxSide
MaxSide == 32
\* and of batch sizes 1 .. MaxBatch
MaxBatch == 1

None == "None"

\* ------------------------------------------------------------- file names

Bases == 1..MaxBase

\* a file name is its base name and its extension; one non-image file
\* (notes.txt-like) may lie in a folder next to the .jpg files
Jpg(b) == [base |-> b, ext |-> "jpg"]
Names == {Jpg(b) : b \in Bases} \cup {[base |-> 1, ext |-> "txt"]}

\* f.endswith('.jpg')
endswith_jpg(f) == f.ext = "jpg"

\* os.path.splitext(f)[0]
splitext0(f) == f.base

\* order of two file names of one listing (names differ in their base name,
\* all of one width, then in their extension)
NameLess(f, g) ==
    \/ f.base < g.base
    \/ f.base = g.base /\ f.ext = "jpg" /\ g.ext = "txt"

RECURSIVE SortSet(_)
\* the names of a set in ascending order
SortSet(S) ==
    IF S = {} THEN <<>>
    ELSE LET m == CHOOSE x \in S : \A y \in S \ {x} : NameLess(x, y)
         IN  <<m>> \o SortSet(S \ {m})

\* the set of entries of a list
Range(s) == {s[i] : i \in 1..Len(s)}

\* sorted(lst) for a list of distinct file names
sorted(lst) == SortSet(Range(lst))

\* sorted([f for f in os.listdir(folder) if f.endswith('.jpg')]); os.listdir
\* returns the names of the folder in no particular order
ListJpg(folder) == SortSet({f \in folder : endswith_jpg(f)})

\* ------------------------------------------------------- fixed structure

channels == <<"Green_Channel", "Near_Infrared_Channel", "Red_Channel", "Red_Edge_Channel">>
Channels == Range(channels)
FolderSets == {"Train_Images", "Test_Images"}

\* mode strings a caller may pass
Modes == {"train", "val", "test", "validation"}

\* split_ratio as a fraction <<numerator, denominator>>: 0.8, 0.5 and 1.0
SplitRatios == {<<4, 5>>, <<1, 2>>, <<1, 1>>}

\* image sizes <<height, width>>
RgbShape == <<4, 6>>
DefaultShape == <<2, 3>>
OtherShape == <<2, 2>>

\* ------------------------------------------------------------------ state

VARIABLES
    rgb_dir,         \* rgb_dir[folder_set]: the file names in that RGB folder
    spectral_dir,    \* spectral_dir[channel][folder_set]: the file names there
    shape,           \* shape[channel][base]: size of that channel image
    rng,             \* rng[seed]: the permutation the seeded generator draws
    pc,              \* "idle" | "loading" | "ready" | "failed"
    self,            \* the fields of the dataset under construction
    split_files,     \* the constructor's locals train_files and val_files
    units,           \* units[i]: the future of the unit of work for index i-1
    overtaken,       \* some unit finished while one of a lower index had not
    results,         \* the list built from executor.map, in its order
    error,           \* the exception that ended the last call, or None
    ret,             \* the outcome of the last __getitem__
    net              \* the network and the tensors of its forward pass

fsvars == <<rgb_dir, spectral_dir, shape, rng, net>>

\* ------------------------------------------------------- train_test_split

\* ceil(p / q) for p >= 0, q > 0
Ceil(p, q) == (p + q - 1) \div q

\* slip: the train slice starts one index late, permutation[n_test + 1:...]
TrainIndicesLate(perm, n_test, n_train) == SubSeq(perm, n_test + 2, n_test + n_train)

\* permutation[n_test:(n_test + n_train)], the train indices
TrainIndices(perm, n_test, n_train) == SubSeq(perm, n_test + 1, n_test + n_train)

\* permutation[:n_test], the test indices
TestIndices(perm, n_test) == SubSeq(perm, 1, n_test)

\* [arr[i] for i in indices]
Take(arr, indices) == [k \in 1..Len(indices) |-> arr[indices[k]]]

\* train_test_split(arr, test_size=1 - split_ratio, random_state=seed), the
\* test size given as the fraction 1 - num/den; perm is the permutation of
\* 1..Len(arr) drawn from the seed.  For the ratios of SplitRatios the float
\* product test_size * n rounds up to the same integer as the exact one.
train_test_split(arr, split_ratio, perm) ==
    LET n      == Len(arr)
        num    == split_ratio[2] - split_ratio[1]
        den    == split_ratio[2]
        n_test == Ceil(num * n, den)
        n_train == n - n_test
    IN  IF num <= 0 \/ num >= den \/ n_train <= 0
        THEN [ok |-> FALSE, test |-> <<>>, train |-> <<>>]
        ELSE [ok |-> TRUE,
              test  |-> Take(arr, TestIndices(perm, n_test)),
              train |-> Take(arr, TrainIndices(perm, n_test, n_train))]

\* [f for f in files if os.path.splitext(f)[0] in
\*       {os.path.splitext(r)[0] for r in subset}]
FilterByBase(files, subset) ==
    LET keep(f) == splitext0(f) \in {splitext0(r) : r \in Range(subset)}
    IN  SelectSeq(files, keep)

\* slip: the lists are left in the order of the split
SortSplitOmitted(part) == part

\* the list train_files (val_files) after line 37 (38)
SortSplit(part) == sorted(part)

\* slip: the validation partition is selected by 'validation' instead
ModeBranchValidation(mode) ==
    CASE mode = "train"      -> "train"
      [] mode = "validation" -> "val"
      [] OTHER               -> "invalid"

\* the branch of lines 51-58
ModeBranch(mode) ==
    CASE mode = "train" -> "train"
      [] mode = "val"   -> "val"
      [] OTHER          -> "invalid"

\* lines 19-60: the lists of the chosen partition, or the error raised
Listing(mode, split_ratio, random_seed) ==
    IF mode = "test"
    THEN [failure |-> None, folder_set |-> "Test_Images",
          rgb_files |-> ListJpg(rgb_dir["Test_Images"]),
          spectral_files |-> [c \in Channels |-> ListJpg(spectral_dir[c]["Test_Images"])],
          train_files |-> <<>>, val_files |-> <<>>]
    ELSE LET all_rgb_files  == ListJpg(rgb_dir["Train_Images"])
             spectral_files == [c \in Channels |-> ListJpg(spectral_dir[c]["Train_Images"])]
             split          == train_test_split(all_rgb_files, split_ratio, rng[random_seed])
             train_files    == SortSplit(split.train)
             val_files      == SortSplit(split.test)
             failed(e, t, v) ==
                 [failure |-> e, folder_set |-> "Train_Images", rgb_files |-> <<>>,
                  spectral_files |-> [c \in Channels |-> <<>>],
                  train_files |-> t, val_files |-> v]
         IN  IF ~split.ok THEN failed("ValueError: split", <<>>, <<>>)
             ELSE CASE ModeBranch(mode) = "train" ->
                         [failure |-> None, folder_set |-> "Train_Images",
                          rgb_files |-> train_files,
                          spectral_files |->
                              [c \in Channels |-> FilterByBase(spectral_files[c], train_files)],
                          train_files |-> train_files, val_files |-> val_files]
                    [] ModeBranch(mode) = "val" ->
                         [failure |-> None, folder_set |-> "Train_Images",
                          rgb_files |-> val_files,
                          spectral_files |->
                              [c \in Channels |-> FilterByBase(spectral_files[c], val_files)],
                          train_files |-> train_files, val_files |-> val_files]
                    [] OTHER -> failed("ValueError: mode", train_files, val_files)

\* ----------------------------------------------------------- process_image

\* placeholder for the rasters of a unit that has produced none
NoImage == [channel |-> None, name |-> [base |-> 0, ext |-> ""], size |-> <<0, 0>>]

Pending == [channel |-> None, kind |-> None, rgb |-> NoImage,
            spectral |-> <<>>, status |-> "pending"]

Passed == [channel |-> None, kind |-> None, rgb |-> NoImage,
           spectral |-> <<>>, status |-> "ok"]

Raise(kind, channel) == [channel |-> channel, kind |-> kind, rgb |-> NoImage,
                         spectral |-> <<>>, status |-> "error"]

\* numbers of the channels, in the order of self.channels, whose check of
\* lines 104-105 fails for index idx (idx counts from 1 here)
IndexFails(spectral_files, idx, k) == idx > Len(spectral_files[channels[k]])

NameFails(rgb_name, spectral_files, idx, k) ==
    /\ idx <= Len(spectral_files[channels[k]])
    /\ splitext0(rgb_name) # splitext0(spectral_files[channels[k]][idx])

\* lines 103-108: the error of the first channel, in order, whose entry at idx
\* is missing (IndexError) or has another base name (ValueError), or None
CheckNames(rgb_name, spectral_files, idx) ==
    LET bad == {k \in 1..Len(channels) :
                    \/ IndexFails(spectral_files, idx, k)
                    \/ NameFails(rgb_name, spectral_files, idx, k)}
    IN  IF bad = {} THEN Passed
        ELSE LET k == CHOOSE m \in bad : \A o \in bad : m <= o
             IN  IF IndexFails(spectral_files, idx, k)
                 THEN Raise("IndexError", channels[k])
                 ELSE Raise("ValueError", channels[k])

\* cv2.imread(<channel image>, cv2.IMREAD_GRAYSCALE)
ReadSpectral(channel, spectral_file) ==
    [channel |-> channel, name |-> spectral_file, size |-> shape[channel][spectral_file.base]]

\* line 100: cv2.imread(rgb_path)
ReadRgb(rgb_name) == [channel |-> "RGB", name |-> rgb_name, size |-> RgbShape]

\* line 115: cv2.resize(rgb_im, (width, height))
Resize(im, target) == [im EXCEPT !.size = target]

\* lines 129-132: the first channel whose raster differs in size from the
\* resized RGB, or Passed
CheckSizes(rgb_resized, spectral_images) ==
    LET bad == {k \in 1..Len(spectral_images) : spectral_images[k].size # rgb_resized.size}
    IN  IF bad = {} THEN Passed
        ELSE Raise("AssertionError", channels[CHOOSE m \in bad : \A o \in bad : m <= o])

\* process_image(args): the pair returned, or the exception raised
process_image(rgb_name, idx, spectral_files, align) ==
    LET names == CheckNames(rgb_name, spectral_files, idx)
        first == ReadSpectral(channels[1], spectral_files[channels[1]][idx])
        rgb_resized == Resize(ReadRgb(rgb_name), first.size)
        spectral_images ==
            [k \in 1..Len(channels) |-> ReadSpectral(channels[k], spectral_files[channels[k]][idx])]
        sizes == CheckSizes(rgb_resized, spectral_images)
    IN  IF names.status = "error" THEN names
        \* line 124: the class defines no align_images
        ELSE IF align THEN Raise("AttributeError", channels[1])
        ELSE IF sizes.status = "error" THEN sizes
        ELSE [channel |-> None, kind |-> None, rgb |-> rgb_resized,
              spectral |-> spectral_images, status |-> "ok"]

\* -------------------------------------------------------------- __getitem__

\* slip: a bounds check that rejects every negative index
ListIndexNoWrap(n, idx) == IF 0 <= idx /\ idx < n THEN idx + 1 ELSE 0

\* position, counted from 1, of data[idx] in a list of n entries, or 0 when
\* the list raises IndexError (a negative idx counts from the end)
ListIndex(n, idx) ==
    IF 0 <= idx /\ idx < n THEN idx + 1
    ELSE IF -n <= idx /\ idx < 0 THEN n + idx + 1
    ELSE 0

\* __len__(): len(self.data)
len_data(data) == Len(data)

\* Image.fromarray(...) and the optional transform, applied to one raster
Convert(transform, img) == [image |-> img, transform |-> transform]

NoReturn == [called |-> FALSE, idx |-> 0, raised |-> None, value |-> <<>>]

\* __getitem__(idx): the tuple (rgb_image, *spectral_images) or IndexError
getitem(data, transform, idx) ==
    LET p == ListIndex(Len(data), idx)
    IN  IF p = 0
        THEN [called |-> TRUE, idx |-> idx, raised |-> "IndexError", value |-> <<>>]
        ELSE [called |-> TRUE, idx |-> idx, raised |-> None,
              value |-> <<Convert(transform, data[p].rgb)>> \o
                        [k \in 1..Len(data[p].spectral) |-> Convert(transform, data[p].spectral[k])]]

\* ----------------------------------------------------------------- actions

Transforms == {None, "ToTensor"}

NoSelf == [align |-> FALSE, data |-> <<>>, data_set |-> FALSE,
           folder_set |-> None, mode |-> None,
           random_seed |-> 0, rgb_files |-> <<>>,
           spectral_files |-> [c \in Channels |-> <<>>], split_ratio |-> <<0, 1>>, transform |-> None]

\* PotatoDataset(rgb_dir, spectral_dir, transform, mode, align, split_ratio,
\* random_seed), lines 14-66 and the submission of the units by executor.map
Construct(mode, transform, align, split_ratio, random_seed) ==
    /\ pc = "idle"
    /\ LET l == Listing(mode, split_ratio, random_seed)
       IN  /\ self' = [align |-> align, data |-> <<>>, data_set |-> FALSE,
                       folder_set |-> l.folder_set, mode |-> mode,
                       random_seed |-> random_seed, rgb_files |-> l.rgb_files,
                       spectral_files |-> l.spectral_files, split_ratio |-> split_ratio, transform |-> transform]
           /\ split_files' = [train_files |-> l.train_files, val_files |-> l.val_files]
           /\ error' = l.failure
           /\ pc' = IF l.failure = None THEN "loading" ELSE "failed"
           /\ units' = [i \in 1..Len(l.rgb_files) |-> Pending]
    /\ UNCHANGED <<overtaken, results, ret, fsvars>>

\* a worker process runs the unit of work of index i-1 to its end
WorkerRun(i) ==
    /\ pc = "loading"
    /\ units[i].status = "pending"
    /\ units' = [units EXCEPT ![i] =
                    process_image(self.rgb_files[i], i, self.spectral_files, self.align)]
    /\ overtaken' = (overtaken \/ \E j \in 1..(i - 1) : units[j].status = "pending")
    /\ UNCHANGED <<pc, self, split_files, results, error, ret, fsvars>>

\* slip: results are taken as the units complete (the highest finished index
\* not yet taken), as with as_completed
NextResultAsCompleted(futures, collected) ==
    LET taken == {collected[j].rgb.name : j \in 1..Len(collected)}
        done  == {i \in 1..Len(futures) :
                     \/ futures[i].status = "error"
                     \/ futures[i].status = "ok" /\ futures[i].rgb.name \notin taken}
        waiting == {i \in 1..Len(futures) : futures[i].status = "pending"}
    IN  IF done # {} THEN CHOOSE i \in done : \A j \in done : j <= i
        ELSE IF waiting # {} THEN CHOOSE i \in waiting : TRUE
        ELSE 1

\* the unit whose result list(executor.map(...)) takes next: that of the next
\* index in submission order, whichever units are done
NextResult(futures, collected) == Len(collected) + 1

\* slip: the outcome of a failed unit is kept and the loading goes on
GatherKeepGoing(collected, unit) == [gathered |-> Append(collected, unit), raised |-> None]

\* what the constructor does with the outcome of a unit: the result is
\* appended to the list, an exception leaves the constructor
Gather(collected, unit) ==
    IF unit.status = "ok"
    THEN [gathered |-> Append(collected, unit), raised |-> None]
    ELSE [gathered |-> collected, raised |-> unit.kind]

\* line 69: list(...) takes the next result of executor.map, which re-raises
\* the exception of a failed unit; leaving the with block cancels what is
\* still pending
Collect ==
    /\ pc = "loading"
    /\ Len(results) < Len(units)
    /\ LET i == NextResult(units, results)
       IN  /\ units[i].status # "pending"
           /\ LET g == Gather(results, units[i])
              IN  /\ results' = g.gathered
                  /\ error' = g.raised
                  /\ pc' = IF g.raised = None THEN "loading" ELSE "failed"
                  /\ units' = IF g.raised = None THEN units
                              ELSE [j \in 1..Len(units) |->
                                       IF units[j].status = "pending"
                                       THEN [Pending EXCEPT !.status = "cancelled"]
                                       ELSE units[j]]
    /\ UNCHANGED <<self, split_files, overtaken, ret, fsvars>>

\* line 71: self.data = results, and the constructor returns
SetData ==
    /\ pc = "loading"
    /\ Len(results) = Len(units)
    /\ self' = [self EXCEPT !.data = results, !.data_set = TRUE]
    /\ pc' = "ready"
    /\ UNCHANGED <<split_files, units, overtaken, results, error, ret, fsvars>>

\* dataset[idx] on the constructed dataset
GetItem(idx) ==
    /\ pc = "ready"
    /\ ret' = getitem(self.data, self.transform, idx)
    /\ UNCHANGED <<pc, self, split_files, units, overtaken, results, error, fsvars>>

\* ------------------------------------------------------------ the network

\* a tensor is its shape <<batch, channels, height, width>>, or the shape
\* error the tensor runtime raised on the way to it
Tensor(b, c, h, w) == [dims |-> <<b, c, h, w>>, ok |-> TRUE]
ShapeError == [dims |-> <<0, 0, 0, 0>>, ok |-> FALSE]

\* nn.Conv2d(cin, cout, kernel_size, padding) applied to x
Conv2d(cin, cout, kernel_size, padding, x) ==
    IF ~x.ok \/ x.dims[2] # cin THEN ShapeError
    ELSE LET h == x.dims[3] + 2 * padding - kernel_size + 1
             w == x.dims[4] + 2 * padding - kernel_size + 1
         IN  IF h < 1 \/ w < 1 THEN ShapeError ELSE Tensor(x.dims[1], cout, h, w)

\* DoubleConv(cin, cout).forward(x), lines 10-19
DoubleConv(cin, cout, x) == Conv2d(cout, cout, 3, 1, Conv2d(cin, cout, 3, 1, x))

\* nn.MaxPool2d(kernel_size=2, stride=2) applied to x
MaxPool2d(x) ==
    IF ~x.ok THEN ShapeError
    ELSE LET h == (x.dims[3] - 2) \div 2 + 1
             w == (x.dims[4] - 2) \div 2 + 1
         IN  IF x.dims[3] < 2 \/ x.dims[4] < 2 THEN ShapeError
             ELSE Tensor(x.dims[1], x.dims[2], h, w)

\* Downsample(cin, cout).forward(x), lines 29-33: the pair down, p (pooled)
Downsample(cin, cout, x) ==
    LET down == DoubleConv(cin, cout, x)
    IN  [down |-> down, pooled |-> MaxPool2d(down)]

\* nn.ConvTranspose2d(cin, cout, kernel_size=2, stride=2) applied to x
ConvTranspose2d(cin, cout, x) ==
    IF ~x.ok \/ x.dims[2] # cin THEN ShapeError
    ELSE Tensor(x.dims[1], cout, (x.dims[3] - 1) * 2 + 2, (x.dims[4] - 1) * 2 + 2)

\* slip: the transposed convolution keeps the channel count
UpChannelsKept(cin) == cin

\* the channel count self.up of Upsample(cin, cout) produces, line 40
UpChannels(cin) == cin \div 2

\* torch.cat([x1, x2], 1)
Cat(x1, x2) ==
    IF ~x1.ok \/ ~x2.ok THEN ShapeError
    ELSE IF x1.dims[1] # x2.dims[1] \/ x1.dims[3] # x2.dims[3] \/ x1.dims[4] # x2.dims[4]
    THEN ShapeError
    ELSE Tensor(x1.dims[1], x1.dims[2] + x2.dims[2], x1.dims[3], x1.dims[4])

\* Upsample(cin, cout).forward(x1, x2), lines 43-47: the upsampled x1, the
\* concatenation and the result
Upsample(cin, cout, x1, x2) ==
    LET up == ConvTranspose2d(cin, UpChannels(cin), x1)
        x  == Cat(up, x2)
    IN  [cat |-> x, expects |-> cin, output |-> DoubleConv(cin, cout, x), skip |-> x2, up |-> up]

\* the channel widths of lines 55-67
DownOut == <<64, 128, 256, 512>>
UpIn == <<1024, 512, 256, 128>>
UpOut == <<512, 256, 128, 64>>

\* widths of the inputs: multiples of 16 and others
Widths == {8, 16, 17, 24, 32, 48}

InChannels == {1, 3}
OutChannels == {1, 4}

NoNet == [cur |-> ShapeError, downs |-> <<>>, in_channels |-> 0, input |-> ShapeError,
          out_channels |-> 0, output |-> ShapeError, stage |-> "none", ups |-> <<>>]

\* model(x): forward is entered with the input x
Forward(x) ==
    /\ net.stage = "built"
    /\ net' = [net EXCEPT !.stage = "down", !.input = x, !.cur = x]
    /\ UNCHANGED <<rgb_dir, spectral_dir, shape, rng, pc, self, split_files, units,
                   overtaken, results, error, ret>>

NetStep(n) ==
    /\ net' = n
    /\ UNCHANGED <<rgb_dir, spectral_dir, shape, rng, pc, self, split_files, units,
                   overtaken, results, error, ret>>

\* lines 75-78: down_k, p_k = self.down_conv_k(...)
Down ==
    /\ net.stage = "down"
    /\ LET k == Len(net.downs) + 1
           cin == IF k = 1 THEN net.in_channels ELSE DownOut[k - 1]
           d == Downsample(cin, DownOut[k], net.cur)
       IN  NetStep([net EXCEPT !.downs = Append(@, d.down), !.cur = d.pooled,
                               !.stage = IF k = 4 THEN "bottleneck" ELSE "down"])

\* line 81: b = self.bottle_neck(p4)
Bottleneck ==
    /\ net.stage = "bottleneck"
    /\ NetStep([net EXCEPT !.cur = DoubleConv(512, 1024, net.cur), !.stage = "up"])

\* lines 84-87: up_k = self.up_conv_k(previous, down_(5-k))
Up ==
    /\ net.stage = "up"
    /\ LET k == Len(net.ups) + 1
           u == Upsample(UpIn[k], UpOut[k], net.cur, net.downs[5 - k])
       IN  NetStep([net EXCEPT !.ups = Append(@, [cat |-> u.cat, expects |-> u.expects,
                                                   skip |-> u.skip, up |-> u.up]),
                               !.cur = u.output,
                               !.stage = IF k = 4 THEN "out" ELSE "up"])

\* lines 90-91: out = self.out(up_4)
Out ==
    /\ net.stage = "out"
    /\ NetStep([net EXCEPT !.output = Conv2d(64, net.out_channels, 1, 0, net.cur), !.stage = "done"])

\* ------------------------------------------------------------ initial state

\* the permutations of 1..n, as lists
Perms(n) == {q \in [1..n -> 1..n] : \A i, j \in 1..n : q[i] = q[j] => i = j}

\* a channel image of a folder: <<channel, base name>>
Cells == Channels \X Bases

\* the .jpg files of channel c when the channel folders differ from the RGB
\* folder P in the cells D (a file missing there, or an extra one)
ChannelFolder(P, D, c) ==
    {Jpg(b) : b \in {x \in Bases : (Jpg(x) \in P) # (<<c, x>> \in D)}}

RECURSIVE UpTo(_, _)
\* the subsets of S of at most k elements
UpTo(S, k) ==
    IF k = 0 THEN {{}}
    ELSE LET less == UpTo(S, k - 1)
         IN  less \cup {A \cup {x} : A \in less, x \in S}

\* the folders that hold image files only
JpgPools == SUBSET {Jpg(b) : b \in Bases}

\* the folders of one folder set are populated: the RGB folder with one of
\* `pools`, the channel folders with the same .jpg files up to `deviations`
\* cells, all images of the default size but at most `odd` of them, which
\* are of one channel; the generator draws some permutation for each seed of
\* `seeds`
InitWith(pools, deviations, odd, seeds) ==
    /\ \E populated \in FolderSets, P \in pools, D \in UpTo(Cells, deviations) :
          /\ rgb_dir = [fs \in FolderSets |-> IF fs = populated THEN P ELSE {}]
          /\ spectral_dir = [c \in Channels |-> [fs \in FolderSets |->
                                IF fs = populated THEN ChannelFolder(P, D, c) ELSE {}]]
          /\ \E oc \in Channels :
                \E O \in UpTo({b \in Bases : Jpg(b) \in ChannelFolder(P, D, oc)}, odd) :
                   shape = [c \in Channels |-> [b \in Bases |->
                               IF c = oc /\ b \in O THEN OtherShape ELSE DefaultShape]]
          /\ rng \in [seeds -> Perms(Cardinality({f \in rgb_dir["Train_Images"] : endswith_jpg(f)}))]
    /\ pc = "idle"
    /\ self = NoSelf
    /\ split_files = [train_files |-> <<>>, val_files |-> <<>>]
    /\ units = <<>>
    /\ overtaken = FALSE
    /\ results = <<>>
    /\ error = None
    /\ ret = NoReturn
    /\ net = NoNet

vars == <<rgb_dir, spectral_dir, shape, rng, pc, self, split_files, units, overtaken,
          results, error, ret, net>>

\* the inputs of the constructor
Args(modes, transforms, aligns, ratios) ==
    \E mode \in modes, transform \in transforms, align \in aligns,
       split_ratio \in ratios, random_seed \in DOMAIN rng :
       Construct(mode, transform, align, split_ratio, random_seed)

Load ==
    \/ \E i \in 1..Len(units) : WorkerRun(i)
    \/ Collect
    \/ SetData

\* A dataset is constructed over folders that keep the layout, and read.
Init == InitWith(SUBSET Names, 0, 0, {42})

Next ==
    \/ Args(Modes, Transforms, BOOLEAN, SplitRatios)
    \/ Load
    \/ \E idx \in (0 - MaxIndex)..MaxIndex : GetItem(idx)

Spec == Init /\ [][Next]_vars

\* A dataset is constructed over folders that keep the layout, where some
\* channel images may have another size.
InitSize == InitWith(JpgPools, 0, MaxOdd, {42})

NextSize ==
    \/ Args(Modes, {None}, BOOLEAN, SplitRatios)
    \/ Load

SpecSize == InitSize /\ [][NextSize]_vars

\* A dataset is constructed over folders that may break the layout.
InitFaulty == InitWith(JpgPools, MaxDeviations, 0, {42})

NextFaulty ==
    \/ Args(Modes, {None}, BOOLEAN, SplitRatios)
    \/ Load

SpecFaulty == InitFaulty /\ [][NextFaulty]_vars

\* UNet(in_channels, out_channels) is built and run on one input.
InitNet ==
    /\ rgb_dir = [fs \in FolderSets |-> {}]
    /\ spectral_dir = [c \in Channels |-> [fs \in FolderSets |-> {}]]
    /\ shape = [c \in Channels |-> [b \in Bases |-> DefaultShape]]
    /\ rng = [seed \in {42} |-> <<>>]
    /\ pc = "idle"
    /\ self = NoSelf
    /\ split_files = [train_files |-> <<>>, val_files |-> <<>>]
    /\ units = <<>>
    /\ overtaken = FALSE
    /\ results = <<>>
    /\ error = None
    /\ ret = NoReturn
    /\ \E i \in InChannels, o \in OutChannels :
          net = [NoNet EXCEPT !.stage = "built", !.in_channels = i, !.out_channels = o]

NextNet ==
    \/ \E b \in 1..MaxBatch, c \in InChannels, h \in 1..MaxSide, w \in Widths :
          Forward(Tensor(b, c, h, w))
    \/ Down
    \/ Bottleneck
    \/ Up
    \/ Out

SpecNet == InitNet /\ [][NextNet]_vars

\* ------------------------------------------------------------------ claims

BaseNames(files) == {splitext0(f) : f \in Range(files)}

\* the constructor has made its lists (no split error, no mode error)
Listed == pc \in {"loading", "ready"} \/ (pc = "failed" /\ error \notin {"ValueError: split", "ValueError: mode"})

\* the unit of index i has run to its end
Ran(i) == units[i].status \in {"ok", "error"}

\* C1: whenever the file paired with rgb_files[i] in some channel's list has
\* another base name, the unit of index i raises the filename-mismatch
\* ValueError and nothing else.
C1_MismatchAlwaysValueError ==
    \A i \in 1..Len(units) : \A k \in 1..Len(channels) :
        (Ran(i) /\ NameFails(self.rgb_files[i], self.spectral_files, i, k))
            => (units[i].status = "error" /\ units[i].kind = "ValueError")

\* C2: once the split is made, the train and validation lists are disjoint
\* as base-name sets, their union is the set of base names of the .jpg files
\* of the RGB Train_Images folder, no name is repeated, and rgb_files is the
\* list of the constructed mode.
C2_SplitPartitionsPool ==
    (self.mode \in {"train", "val"} /\ Listed) =>
        LET T == BaseNames(split_files.train_files)
            V == BaseNames(split_files.val_files)
            pool == {splitext0(f) : f \in {g \in rgb_dir["Train_Images"] : endswith_jpg(g)}}
        IN  /\ T \cap V = {}
            /\ T \cup V = pool
            /\ Cardinality(T) = Len(split_files.train_files)
            /\ Cardinality(V) = Len(split_files.val_files)
            /\ self.mode = "train" => self.rgb_files = split_files.train_files
            /\ self.mode = "val" => self.rgb_files = split_files.val_files

C2_Witness ==
    /\ pc = "ready"
    /\ self.mode = "val"
    /\ Len(split_files.train_files) = 2
    /\ Len(split_files.val_files) = 1
    /\ Len(self.data) = 1

\* C3: after a successful construction data has one entry per entry of
\* rgb_files, and data[i] is the result of the unit run for rgb_files[i],
\* in whatever order the units finished.
C3_DataInDispatchOrder ==
    pc = "ready" =>
        /\ Len(self.data) = Len(self.rgb_files)
        /\ \A i \in 1..Len(self.data) :
              /\ self.data[i] = units[i]
              /\ self.data[i].rgb.name = self.rgb_files[i]
              /\ self.data[i] = process_image(self.rgb_files[i], i, self.spectral_files, self.align)

C3_Witness ==
    /\ pc = "ready"
    /\ overtaken
    /\ Len(self.data) >= 2

\* C4: data is set only when every unit has succeeded and then holds all
\* their results; once a unit has failed data is not set, and a failed
\* construction exposes no list, whatever was gathered before the failure.
C4_AllOrNothing ==
    /\ self.data_set =>
          /\ pc = "ready"
          /\ Len(self.data) = Len(units)
          /\ \A i \in 1..Len(units) : units[i].status = "ok"
    /\ (\E i \in 1..Len(units) : units[i].status = "error") =>
          (~self.data_set /\ self.data = <<>> /\ pc \in {"loading", "failed"})
    /\ pc = "failed" => (~self.data_set /\ self.data = <<>>)

C4_Witness ==
    /\ pc = "failed"
    /\ error = "AssertionError"
    /\ Len(results) >= 1
    /\ ~self.data_set

\* some channel image of sample i has another size than the Green image
OddSample(i) ==
    \E k \in 1..Len(channels) :
        shape[channels[k]][self.rgb_files[i].base] # shape[channels[1]][self.rgb_files[i].base]

\* C5: in a constructed dataset the five rasters of every sample share one
\* height and width, and a matched file set with a channel image of another
\* size than the Green image fails construction with the size assertion.
C5_SizesAgreeOrAssertion ==
    /\ pc = "ready" =>
          \A i \in 1..Len(self.data) : \A k \in 1..Len(channels) :
              self.data[i].spectral[k].size = self.data[i].rgb.size
    /\ (Listed /\ \E i \in 1..Len(self.rgb_files) : OddSample(i)) =>
          /\ pc # "ready"
          /\ pc = "failed" => error = "AssertionError"

\* the mode strings the constructor accepts
Accepted == {"train", "val", "test"}

\* C6 as amended: the accepted modes are exactly train, val and test. With
\* one of them the constructor goes on to its lists and dispatches one unit
\* per file of that partition; with any other string, validation included,
\* it fails before any unit is dispatched, with the invalid-mode error
\* whenever the training pool could be split.
C6_AcceptedModes ==
    self.mode # None =>
        /\ self.mode \in Accepted =>
              /\ error # "ValueError: mode"
              /\ Listed => Len(units) = Len(self.rgb_files)
              /\ (Listed /\ self.mode = "test") =>
                    self.rgb_files = ListJpg(rgb_dir["Test_Images"])
              /\ (Listed /\ self.mode = "train") => self.rgb_files = split_files.train_files
              /\ (Listed /\ self.mode = "val") => self.rgb_files = split_files.val_files
        /\ self.mode \notin Accepted =>
              /\ pc = "failed"
              /\ units = <<>>
              /\ ~self.data_set
              /\ error \in {"ValueError: mode", "ValueError: split"}
              /\ split_files.train_files # <<>> => error = "ValueError: mode"

C6_Witness ==
    /\ self.mode = "validation"
    /\ pc = "failed"
    /\ error = "ValueError: mode"
    /\ Len(split_files.val_files) >= 1

\* C6 as stated: train, validation and test are accepted, every other string
\* is rejected with the invalid-mode error.
C6_Original ==
    self.mode # None =>
        /\ self.mode \in {"train", "validation", "test"} => error # "ValueError: mode"
        /\ (self.mode \notin {"train", "validation", "test"} /\ split_files.train_files # <<>>)
              => error = "ValueError: mode"

\* C7: with align set no unit fails because of the alignment, so that a
\* construction over a consistent file set is not failed by a unit.
C7_AlignNeverFails ==
    self.align =>
        /\ \A i \in 1..Len(units) : units[i].kind # "AttributeError"
        /\ Listed => pc # "failed"

\* the tuple __getitem__ builds from the entry at position p of data
TupleOf(p) ==
    /\ ret.raised = None
    /\ Len(ret.value) = 5
    /\ ret.value[1] = Convert(self.transform, self.data[p].rgb)
    /\ ret.value[1].image.channel = "RGB"
    /\ \A k \in 1..4 :
          /\ ret.value[k + 1] = Convert(self.transform, self.data[p].spectral[k])
          /\ ret.value[k + 1].image.channel = channels[k]

\* C8 as amended: on a dataset of N samples an index outside -N..N-1 raises
\* IndexError and returns nothing, an index in 0..N-1 returns the 5-tuple
\* (RGB, Green, Near-Infrared, Red, Red-Edge) built from data[index], and an
\* index in -N..-1 returns the 5-tuple built from data[N + index].
C8_IndexedAccess ==
    ret.called =>
        LET N == len_data(self.data)
        IN  /\ (ret.idx < 0 - N \/ ret.idx >= N) => (ret.raised = "IndexError" /\ ret.value = <<>>)
            /\ (0 <= ret.idx /\ ret.idx < N) => TupleOf(ret.idx + 1)
            /\ (0 - N <= ret.idx /\ ret.idx < 0) => TupleOf(N + ret.idx + 1)

C8_Witness ==
    /\ ret.called
    /\ Len(self.data) = 2
    /\ ret.idx = -1
    /\ ret.raised = None
    /\ ret.value[1].image.name = self.rgb_files[2]

\* C8 as stated: every index outside 0..N-1 raises the bounds-check error.
C8_Original ==
    (ret.called /\ (ret.idx < 0 \/ ret.idx >= len_data(self.data))) => ret.raised = "IndexError"

\* the input has the configured channel count and sides that are positive
\* multiples of 16
InputFits ==
    /\ net.input.ok
    /\ net.input.dims[2] = net.in_channels
    /\ net.input.dims[3] % 16 = 0
    /\ net.input.dims[4] % 16 = 0

RECURSIVE Pow2(_)
Pow2(k) == IF k = 0 THEN 1 ELSE 2 * Pow2(k - 1)

\* C9: on an input that fits, the skip map of level k has the input's sides
\* halved k-1 times, every upsampled map has the sides and the channel count
\* of the skip map it is concatenated with (512, 256, 128, 64), every
\* concatenation has the channel count the following double convolution
\* expects, and the output has the shape (batch, out_channels, H, W).
C9_ForwardShapes ==
    InputFits =>
        /\ \A k \in 1..Len(net.downs) :
              /\ net.downs[k].ok
              /\ net.downs[k].dims[3] * Pow2(k - 1) = net.input.dims[3]
              /\ net.downs[k].dims[4] * Pow2(k - 1) = net.input.dims[4]
        /\ \A k \in 1..Len(net.ups) :
              /\ net.ups[k].up.ok /\ net.ups[k].skip.ok /\ net.ups[k].cat.ok
              /\ net.ups[k].up.dims[3] = net.ups[k].skip.dims[3]
              /\ net.ups[k].up.dims[4] = net.ups[k].skip.dims[4]
              /\ net.ups[k].up.dims[2] = UpOut[k]
              /\ net.ups[k].skip.dims[2] = UpOut[k]
              /\ net.ups[k].cat.dims[2] = net.ups[k].expects
        /\ net.stage = "done" =>
              /\ net.output.ok
              /\ net.output.dims = <<net.input.dims[1], net.out_channels, net.input.dims[3], net.input.dims[4]>>

C9_Witness ==
    /\ net.stage = "done"
    /\ InputFits
    /\ net.input.dims[3] = 32
    /\ net.input.dims[4] = 16
    /\ net.in_channels = 3
    /\ net.output.dims = <<1, 4, 32, 16>>

\* every channel folder holds .jpg files with exactly the base names of the
\* .jpg files of the RGB folder of the same set
LayoutHolds ==
    \A fs \in FolderSets : \A c \in Channels :
        {splitext0(f) : f \in {g \in spectral_dir[c][fs] : endswith_jpg(g)}}
            = {splitext0(f) : f \in {g \in rgb_dir[fs] : endswith_jpg(g)}}

\* the lists pair by index
Paired ==
    \A c \in Channels :
        /\ Len(self.spectral_files[c]) = Len(self.rgb_files)
        /\ \A i \in 1..Len(self.rgb_files) :
              splitext0(self.spectral_files[c][i]) = splitext0(self.rgb_files[i])

====
